---- MODULE Spec2Model ----
(***************************************************************************)
(* Progress / streak / notification bookkeeping of the StudyMind backend.  *)
(*                                                                         *)
(* The state is the committed content of the database tables of one user   *)
(* (every query of the handlers filters by user_id, so users do not        *)
(* interact) plus the calendar date.  One action models one whole request  *)
(* handler (app.py) or one whole service call (services.py), including     *)
(* the helpers it calls and the rollback that follows an exception.        *)
(***************************************************************************)
EXTENDS Integers, Sequences, FiniteSets, TLC

(* ----------------------------- bounds ---------------------------------- *)
MaxDay == 2            \* calendar days are 0..MaxDay; the clock starts at day 1
MaxStudy == 65         \* cap on the minutes supplied to one day
MaxPages == 4          \* cap on the pages supplied to one day
MaxTasksDone == 2      \* cap on the task completions supplied to one day
MaxTotal == 130        \* cap on user.total_study_time
MaxStreakUpdates == 2  \* cap on the streak transitions performed on one day
MaxNotifications == 3  \* cap on the rows of the notifications table
MaxLen == 3            \* cap on the length of a model response, in tokens
MaxTasks == 2          \* cap on the user's tasks
MaxTags == 2           \* cap on the number of tags of a material

(* ------------------------ program constants ---------------------------- *)
DefaultDailyGoal == 60                            \* models.py:251
ServiceMilestones == {7, 14, 30, 60, 100, 365}    \* services.py:404
RouteMilestones == {7, 14, 30, 60, 100}           \* app.py:737
SeedDays == 14                                    \* init_db.py:319
SeedGoal == 60                                    \* init_db.py:332

(* NULL of a nullable DateTime column *)
Null == -1

(* ----------------------------- inputs ---------------------------------- *)
Days == 0..MaxDay
SessionIds == {1}                 \* the user's study session
RequestedSessionIds == {1, 2}     \* ids a request may name; 2 names no session
TaskIds == {1}
MaterialIds == {1}
OtherIds == {3}                   \* ids of the sessions and tasks of another user
RequestedTaskIds == {1, 2}
EndInputs == {<<0, 0>>, <<20, 1>>, <<45, 3>>}
            \* (duration, pagesCovered) of a request body; <<0, 0>> is a request without one
SignedInputs == {<<20, 1>>, <<45, 3>>, <<-20, -1>>}
            \* request bodies with numbers of either sign: both are stored as sent
NotificationKinds == {<<"update", "New material", "ri-book-line">>}
            \* (type, title, icon) of a direct NotificationService.create call
ReminderTitles == {"Time to study"}
AchievementTitles == {"Goal reached"}
DueOffsets == {-1, 23, 24, 47, 48, 72}
            \* task.due_date, in hours after today's midnight
ClockHours == {0, 23}                 \* hour of datetime.utcnow()
Tokens == {"[", "]", "{", "}", "v", "x"}
            \* lexical classes of a response text: brackets, braces, "v" a JSON
            \* scalar (or object member) with its separator, "x" prose
ProviderErrors == {"429 Resource exhausted", "Expecting value"}
            \* str(e) of an exception raised by generate_content or response.text
ImageTypes == {"img", "image", "jpg", "jpeg", "png", "heic"}
FileTypes == {"pdf", "img"}
Goals == {"understand", "summary"}
Contents == {"", "notes"}           \* text extracted from a file or sent in a body
CrudIds == {1, 2, 3, 4}
            \* ids a task, session or material request may name: 2 names
            \* nothing, 3 a row of another user, 4 the next row created
TagNames == {<<>>, <<"a">>, <<"a", "b">>}
            \* tag strings, as sequences of characters; <<>> is the empty string
GoalChoices == {90}                         \* daily_goal values of a settings update
InitStreaks == {0, 6, 364}
SeedStudy == {45, 65}             \* study_time values the seed script may draw
ConcDelta == <<20, 1>>            \* (study_time, pages_read) of an interleaved call

VARIABLES
  today,            \* datetime.utcnow().date(), as a day number
  daily_progress,   \* table daily_progress: a set of rows
  user,             \* the users row: [streak, total_study_time]
  settings,         \* the user_settings row, or NoSettings
  sessions,         \* table study_sessions: id -> row
  tasks,            \* table tasks: id -> row
  notifications,    \* table notifications, in insertion order
  supplied,         \* history: sum of the deltas passed to recordActivity today
  streak_updates,   \* history: streak transitions performed today
  last,             \* history: what the last request did
  new_user,         \* history: the user started with streak 0 and no recorded activity
  pc, found,        \* interleaved requests (second specification)
  users,            \* table users: the ids present
  materials,        \* table materials: id -> row
  ai,               \* the AI gateway: the last invocation and its remote calls
  other,            \* the rows of another user: [sessions, tasks, notifications]
  twin              \* a second copy of the progress tables (lockstep comparison)

vars == <<today, daily_progress, user, settings, sessions, tasks, notifications,
          supplied, streak_updates, last, new_user, pc, found, users, materials, ai, other, twin>>

NoSettings == [present |-> FALSE]
NoRow == [has |-> FALSE]

(* --------------------------- the ORM layer ----------------------------- *)

\* DailyProgress.query.filter_by(user_id=..., date=d)
RowsOn(dp, d) == {r \in dp : r.date = d}

\* .first()
First(rows) == CHOOSE r \in rows : TRUE

\* DailyProgress(user_id=user_id, date=today): the constructor sets only the
\* attributes it is given.  Column(default=0) / Column(default=False) are
\* INSERT defaults, applied at flush; until then the other attributes of the
\* new object read as None.
NewDailyProgress(d) == [date |-> d]

\* an attribute of a mapped object that reads as None
IsNone(obj, attr) == attr \notin DOMAIN obj

\* primary key of the next inserted row
NextId(dp) == IF dp = {} THEN 1
              ELSE (CHOOSE m \in {r.id : r \in dp} : \A r \in dp : r.id <= m) + 1

\* a Notification row as the insert leaves it (read defaults to False)
Notification(type, title, icon) ==
  [type |-> type, title |-> title, icon |-> icon, read |-> FALSE]

(* ------------------- the unit of work of one request ------------------- *)
\* The session's view of the tables while a handler runs: exc is the
\* exception that ended the handler ("none" while it runs), trans counts the
\* streak transitions the handler performed.
Work == [dp |-> daily_progress, streak |-> user.streak,
         total |-> user.total_study_time, notifs |-> notifications,
         exc |-> "none", trans |-> 0]

GoalMetOn(dp, d) == \E r \in RowsOn(dp, d) : r.goal_met

TodayRows == RowsOn(daily_progress, today)

\* progress.study_time += study_time ... progress.pages_read += pages_read
AddDeltas(progress, study_time, materials_processed, tasks_completed, pages_read) ==
  [progress EXCEPT !.study_time = @ + study_time,
                   !.materials_processed = @ + materials_processed,
                   !.tasks_completed = @ + tasks_completed,
                   !.pages_read = @ + pages_read]

\* `settings and progress.study_time >= settings.daily_goal`
GoalReached(progress) ==
  settings.present /\ progress.study_time >= settings.daily_goal

(* ------------------------------ app.py --------------------------------- *)

\* update_daily_progress with the flag assigned from the comparison
\* (progress.goal_met = progress.study_time >= settings.daily_goal)
update_daily_progress_level(w, study_time, materials_processed, tasks_completed, pages_read) ==
  LET rows == RowsOn(w.dp, today)
      progress == IF rows # {} THEN First(rows) ELSE NewDailyProgress(today)
  IN IF IsNone(progress, "study_time")
     THEN [w EXCEPT !.exc = "TypeError"]
     ELSE LET p1 == AddDeltas(progress, study_time, materials_processed,
                              tasks_completed, pages_read)
              p2 == [p1 EXCEPT !.goal_met = GoalReached(p1)]
          IN [w EXCEPT !.dp = (w.dp \ {progress}) \cup {p2}]

\* app.py update_daily_progress
update_daily_progress(w, study_time, materials_processed, tasks_completed, pages_read) ==
  LET rows == RowsOn(w.dp, today)
      progress == IF rows # {} THEN First(rows) ELSE NewDailyProgress(today)
  IN IF IsNone(progress, "study_time")
     THEN [w EXCEPT !.exc = "TypeError"]      \* None += int
     ELSE LET p1 == AddDeltas(progress, study_time, materials_processed,
                              tasks_completed, pages_read)
              p2 == IF GoalReached(p1) THEN [p1 EXCEPT !.goal_met = TRUE] ELSE p1
          IN [w EXCEPT !.dp = (w.dp \ {progress}) \cup {p2}]

\* app.py update_streak
update_streak(w) ==
  LET yesterday == today - 1
      yesterday_progress == {r \in RowsOn(w.dp, yesterday) : r.goal_met}
      today_progress == RowsOn(w.dp, today)
  IN IF today_progress # {} /\ First(today_progress).goal_met
     THEN LET streak == IF yesterday_progress # {} THEN w.streak + 1 ELSE 1
          IN [w EXCEPT !.streak = streak,
                       !.trans = @ + 1,
                       !.notifs = IF streak \in RouteMilestones
                                  THEN Append(@, Notification("achievement", streak, "ri-fire-line"))
                                  ELSE @]
     ELSE w

(* ---------------------------- services.py ------------------------------ *)

\* NotificationService.create that skips a notification the user already has
NotificationService_create_dedup(w, type, title, icon) ==
  IF \E i \in DOMAIN w.notifs : w.notifs[i].type = type /\ w.notifs[i].title = title
  THEN w
  ELSE [w EXCEPT !.notifs = Append(@, Notification(type, title, icon))]

\* NotificationService.create
NotificationService_create(w, type, title, icon) ==
  [w EXCEPT !.notifs = Append(@, Notification(type, title, icon))]

\* NotificationService.create_achievement
NotificationService_create_achievement(w, title) ==
  NotificationService_create(w, "achievement", title, "ri-trophy-line")

\* NotificationService.create_reminder
NotificationService_create_reminder(w, title) ==
  NotificationService_create(w, "reminder", title, "ri-alarm-line")

\* datetime.date(): datetimes are counted in hours, dates in days
DateOf(dt) == dt \div 24

\* NotificationService.create_deadline_warning with the days computed from
\* the timedelta of the two datetimes, (task.due_date - datetime.utcnow()).days
NotificationService_create_deadline_warning_timedelta(w, task, now) ==
  LET days_left == (task.due_date - now) \div 24
  IN NotificationService_create(w, "warning",
       "Deadline in " \o ToString(days_left) \o " day"
          \o (IF days_left # 1 THEN "s" ELSE ""),
       "ri-calendar-event-line")

\* NotificationService.create_deadline_warning; now is datetime.utcnow()
NotificationService_create_deadline_warning(w, task, now) ==
  LET days_left == DateOf(task.due_date) - DateOf(now)
  IN NotificationService_create(w, "warning",
       "Deadline in " \o ToString(days_left) \o " day"
          \o (IF days_left # 1 THEN "s" ELSE ""),
       "ri-calendar-event-line")

\* ProgressService.update_streak
ProgressService_update_streak(w) ==
  LET yesterday == today - 1
      yesterday_progress == {r \in RowsOn(w.dp, yesterday) : r.goal_met}
      streak == IF yesterday_progress # {} THEN w.streak + 1 ELSE 1
      w1 == [w EXCEPT !.streak = streak, !.trans = @ + 1]
  IN IF streak \in ServiceMilestones
     THEN NotificationService_create_achievement(w1, streak)
     ELSE w1

\* ProgressService.update_daily
ProgressService_update_daily(w, study_time, materials_processed, tasks_completed, pages_read) ==
  LET rows == RowsOn(w.dp, today)
      progress == IF rows # {} THEN First(rows) ELSE NewDailyProgress(today)
  IN IF IsNone(progress, "study_time")
     THEN [w EXCEPT !.exc = "TypeError"]      \* None += int
     ELSE LET p1 == AddDeltas(progress, study_time, materials_processed,
                              tasks_completed, pages_read)
              edge == GoalReached(p1) /\ ~p1.goal_met
              p2 == IF edge THEN [p1 EXCEPT !.goal_met = TRUE] ELSE p1
              w1 == [w EXCEPT !.dp = (w.dp \ {progress}) \cup {p2}]
          IN IF edge THEN ProgressService_update_streak(w1) ELSE w1

(* ---------------------------- ai_service.py ---------------------------- *)
\* The remote model is given by the outcomes its successive calls would have:
\* each either raises with a message or returns a response text.
Raise(msg) == [raises |-> TRUE, msg |-> msg]
Return(text) == [raises |-> FALSE, text |-> text]

Texts == UNION {[1..n -> Tokens] : n \in 0..MaxLen}
ProseTexts == {<<>>, <<"x">>}
Outcomes == {Raise(m) : m \in ProviderErrors} \cup {Return(t) : t \in Texts}
ProseOutcomes == {Raise(m) : m \in ProviderErrors} \cup {Return(t) : t \in ProseTexts}

\* Python's None and a present value, for the optional fields of a result
None == [none |-> TRUE]
Some(v) == [none |-> FALSE, value |-> v]

\* a gateway at the start of an invocation
Gateway(pending) == [pending |-> pending, calls |-> 0]

\* TEXT_MODEL.generate_content(prompt) / VISION_MODEL.generate_content(...)
\* followed by response.text: one remote call
generate_content(g) ==
  [outcome |-> Head(g.pending),
   g |-> [pending |-> Tail(g.pending), calls |-> g.calls + 1]]

\* re.search(open [\s\S]* close, text): the leftmost opening token that has a
\* closing token after it, up to the last closing token
Search(text, open, close) ==
  LET starts == {i \in DOMAIN text : text[i] = open
                                      /\ \E j \in DOMAIN text : j > i /\ text[j] = close}
  IN IF starts = {} THEN [found |-> FALSE]
     ELSE LET i == CHOOSE a \in starts : \A b \in starts : a <= b
              j == CHOOSE a \in DOMAIN text :
                     text[a] = close /\ \A b \in DOMAIN text : text[b] = close => b <= a
          IN [found |-> TRUE, group |-> SubSeq(text, i, j)]

RECURSIVE ParseMembers(_, _)
\* the members of a JSON object from position i: the position after the
\* closing brace, or 0 when the text is not JSON there
ParseMembers(s, i) ==
  IF i > Len(s) THEN 0
  ELSE IF s[i] = "}" THEN i + 1
  ELSE IF s[i] = "v" THEN ParseMembers(s, i + 1)
  ELSE 0

RECURSIVE ParseValue(_, _)
RECURSIVE ParseItems(_, _)
\* a JSON value from position i: the position after it, or 0
ParseValue(s, i) ==
  IF i > Len(s) THEN 0
  ELSE IF s[i] = "v" THEN i + 1
  ELSE IF s[i] = "[" THEN ParseItems(s, i + 1)
  ELSE IF s[i] = "{" THEN ParseMembers(s, i + 1)
  ELSE 0

\* the items of a JSON array from position i
ParseItems(s, i) ==
  IF i > Len(s) THEN 0
  ELSE IF s[i] = "]" THEN i + 1
  ELSE LET k == ParseValue(s, i)
       IN IF k = 0 THEN 0 ELSE ParseItems(s, k)

\* json.loads(s): the parsed value, or the JSONDecodeError it raises (the
\* message without its position)
json_loads(s) ==
  LET k == ParseValue(s, 1)
  IN IF k = 0 THEN [ok |-> FALSE, msg |-> "Expecting value"]
     ELSE IF k <= Len(s) THEN [ok |-> FALSE, msg |-> "Extra data"]
     ELSE [ok |-> TRUE, value |-> s]

\* create_compendium that calls the model a second time when the first call fails
create_compendium_retrying(g, content, goal) ==
  LET c == generate_content(g)
      c2 == IF c.outcome.raises THEN generate_content(c.g) ELSE c
  IN IF c2.outcome.raises
     THEN [g |-> c2.g, result |-> [success |-> FALSE, error |-> c2.outcome.msg]]
     ELSE [g |-> c2.g,
           result |-> [success |-> TRUE, compendium |-> c2.outcome.text, goal |-> goal]]

\* create_compendium
create_compendium(g, content, goal) ==
  LET c == generate_content(g)
  IN IF c.outcome.raises
     THEN [g |-> c.g, result |-> [success |-> FALSE, error |-> c.outcome.msg]]
     ELSE [g |-> c.g,
           result |-> [success |-> TRUE, compendium |-> c.outcome.text, goal |-> goal]]

\* create_compendium_from_image; image_ok tells whether Image.open succeeds
create_compendium_from_image(g, image_ok, goal) ==
  IF ~image_ok
  THEN [g |-> g, result |-> [success |-> FALSE, error |-> "cannot identify image file"]]
  ELSE LET c == generate_content(g)
       IN IF c.outcome.raises
          THEN [g |-> c.g, result |-> [success |-> FALSE, error |-> c.outcome.msg]]
          ELSE [g |-> c.g,
                result |-> [success |-> TRUE, compendium |-> c.outcome.text, goal |-> goal]]

\* ask_question
ask_question(g, content, question) ==
  LET c == generate_content(g)
  IN IF c.outcome.raises
     THEN [g |-> c.g, result |-> [success |-> FALSE, error |-> c.outcome.msg]]
     ELSE [g |-> c.g, result |-> [success |-> TRUE, answer |-> c.outcome.text]]

\* explain_concept
explain_concept(g, concept, context) ==
  LET c == generate_content(g)
  IN IF c.outcome.raises
     THEN [g |-> c.g, result |-> [success |-> FALSE, error |-> c.outcome.msg]]
     ELSE [g |-> c.g, result |-> [success |-> TRUE, explanation |-> c.outcome.text]]

\* generate_flashcards: an exception of json.loads is caught by the same
\* `except Exception as e` as an exception of the remote call
generate_flashcards(g, content, count) ==
  LET c == generate_content(g)
  IN IF c.outcome.raises
     THEN [g |-> c.g, result |-> [success |-> FALSE, error |-> c.outcome.msg]]
     ELSE LET match == Search(c.outcome.text, "[", "]")
          IN IF match.found
             THEN LET flashcards == json_loads(match.group)
                  IN IF flashcards.ok
                     THEN [g |-> c.g, result |-> [success |-> TRUE,
                                                   flashcards |-> flashcards.value]]
                     ELSE [g |-> c.g, result |-> [success |-> FALSE,
                                                   error |-> flashcards.msg]]
             ELSE [g |-> c.g, result |-> [success |-> FALSE,
                                           error |-> "Could not parse flashcards"]]

\* generate_quiz
generate_quiz(g, content, question_count) ==
  LET c == generate_content(g)
  IN IF c.outcome.raises
     THEN [g |-> c.g, result |-> [success |-> FALSE, error |-> c.outcome.msg]]
     ELSE LET match == Search(c.outcome.text, "{", "}")
          IN IF match.found
             THEN LET quiz == json_loads(match.group)
                  IN IF quiz.ok
                     THEN [g |-> c.g, result |-> [success |-> TRUE, quiz |-> quiz.value]]
                     ELSE [g |-> c.g, result |-> [success |-> FALSE, error |-> quiz.msg]]
             ELSE [g |-> c.g, result |-> [success |-> FALSE,
                                           error |-> "Could not parse quiz"]]

\* process_material in which a failed flashcard step fails the whole result
process_material_all_or_nothing(g, file_type, content, image_ok, goal) ==
  LET result == [success |-> FALSE, file_type |-> file_type, goal |-> goal,
                 compendium |-> None, flashcards |-> None, error |-> None]
      image == file_type \in ImageTypes
      text == IF image THEN "" ELSE content
      cr == IF image THEN create_compendium_from_image(g, image_ok, goal)
            ELSE create_compendium(g, content, goal)
  IN IF ~image /\ content = ""
     THEN [g |-> g, result |-> [result EXCEPT
                                  !.error = Some("Could not extract content from file")]]
     ELSE IF cr.result.success
     THEN LET r1 == [result EXCEPT !.success = TRUE,
                                   !.compendium = Some(cr.result.compendium)]
          IN IF goal \in {"understand", "exam", "review"} /\ text # ""
             THEN LET fr == generate_flashcards(cr.g, text, 10)
                  IN [g |-> fr.g,
                      result |-> IF fr.result.success
                                 THEN [r1 EXCEPT !.flashcards = Some(fr.result.flashcards)]
                                 ELSE [result EXCEPT !.error = Some(fr.result.error)]]
             ELSE [g |-> cr.g, result |-> r1]
     ELSE [g |-> cr.g, result |-> [result EXCEPT !.error = Some(cr.result.error)]]

\* process_material; content is what get_file_content returns for the file
process_material(g, file_type, content, image_ok, goal) ==
  LET result == [success |-> FALSE, file_type |-> file_type, goal |-> goal,
                 compendium |-> None, flashcards |-> None, error |-> None]
      image == file_type \in ImageTypes
      text == IF image THEN "" ELSE content
      cr == IF image THEN create_compendium_from_image(g, image_ok, goal)
            ELSE create_compendium(g, content, goal)
  IN IF ~image /\ content = ""
     THEN [g |-> g, result |-> [result EXCEPT
                                  !.error = Some("Could not extract content from file")]]
     ELSE IF cr.result.success
     THEN LET r1 == [result EXCEPT !.success = TRUE,
                                   !.compendium = Some(cr.result.compendium)]
          IN IF goal \in {"understand", "exam", "review"} /\ text # ""
             THEN LET fr == generate_flashcards(cr.g, text, 10)
                  IN [g |-> fr.g,
                      result |-> IF fr.result.success
                                 THEN [r1 EXCEPT !.flashcards = Some(fr.result.flashcards)]
                                 ELSE r1]
             ELSE [g |-> cr.g, result |-> r1]
     ELSE [g |-> cr.g, result |-> [result EXCEPT !.error = Some(cr.result.error)]]

(* ------------------------------ models.py ------------------------------ *)
RECURSIVE Join(_)
\* ",".join(list): the comma-joined text of a list of strings
Join(list) ==
  IF list = <<>> THEN <<>>
  ELSE IF Len(list) = 1 THEN list[1]
  ELSE list[1] \o <<",">> \o Join(Tail(list))

RECURSIVE SplitFrom(_, _)
\* text.split(','), with cur the characters read since the last comma
SplitFrom(text, cur) ==
  IF text = <<>> THEN <<cur>>
  ELSE IF Head(text) = "," THEN <<cur>> \o SplitFrom(Tail(text), <<>>)
  ELSE SplitFrom(Tail(text), Append(cur, Head(text)))

\* str.split(',')
Split(text) == SplitFrom(text, <<>>)

\* the 'tags' entry of Material.to_dict that splits whatever is stored
to_dict_tags_always_split(material) ==
  IF material.tags = None THEN <<>> ELSE Split(material.tags.value)

\* the 'tags' entry of Material.to_dict:
\* self.tags.split(',') if self.tags else []
to_dict_tags(material) ==
  IF material.tags = None \/ material.tags.value = <<>>
  THEN <<>>
  ELSE Split(material.tags.value)

(* --------------------------- history variables ------------------------- *)
ZeroSupplied == [study_time |-> 0, materials_processed |-> 0,
                 tasks_completed |-> 0, pages_read |-> 0]

Supply(study_time, materials_processed, tasks_completed, pages_read) ==
  [study_time |-> supplied.study_time + study_time,
   materials_processed |-> supplied.materials_processed + materials_processed,
   tasks_completed |-> supplied.tasks_completed + tasks_completed,
   pages_read |-> supplied.pages_read + pages_read]

WithinBounds(s) ==
  /\ s.study_time <= MaxStudy
  /\ s.study_time >= 0      \* negative deltas are explored down to a sum of 0
  /\ s.pages_read >= 0
  /\ s.tasks_completed <= MaxTasksDone
  /\ s.pages_read <= MaxPages

\* what the request did, for the properties below
Outcome(op, status, recorded, w) ==
  [op |-> op, status |-> status,
   recorded |-> recorded,
   flipped |-> status = "ok" /\ ~GoalMetOn(daily_progress, today) /\ GoalMetOn(w.dp, today),
   created |-> IF status = "ok" THEN Len(w.notifs) - Len(notifications) ELSE 0,
   trans |-> IF status = "ok" THEN w.trans ELSE 0]

\* db.session.commit() of the unit of work w, or the rollback after an exception;
\* recorded tells whether the handler called recordActivity
Finish(op, recorded, w) ==
  IF w.exc = "none"
  THEN /\ streak_updates + w.trans <= MaxStreakUpdates
       /\ daily_progress' = w.dp
       /\ user' = [streak |-> w.streak, total_study_time |-> w.total]
       /\ notifications' = w.notifs
       /\ streak_updates' = streak_updates + w.trans
       /\ last' = Outcome(op, "ok", recorded, w)
  ELSE /\ UNCHANGED <<daily_progress, user, notifications, streak_updates>>
       /\ last' = Outcome(op, w.exc, recorded, w)

NotFound(op, id) ==
  /\ last' = Outcome(op, "not_found", FALSE, Work) @@ [id |-> id]
  /\ UNCHANGED <<today, daily_progress, user, settings, sessions, tasks,
                 notifications, supplied, streak_updates, new_user, pc, found, users, materials, ai, other, twin>>

(* ------------------------------ handlers ------------------------------- *)

\* app.py end_session without the addition to user.total_study_time
end_session_without_total(session_id, duration, pagesCovered) ==
  IF session_id \notin DOMAIN sessions
  THEN NotFound("end_session", session_id)
  ELSE LET s == Supply(duration, 0, 0, pagesCovered)
           w0 == Work
           w1 == update_daily_progress(w0, duration, 0, 0, pagesCovered)
           w2 == IF w1.exc = "none" THEN update_streak(w1) ELSE w1
       IN /\ WithinBounds(s)
          /\ user.total_study_time + duration <= MaxTotal
          /\ supplied' = s
          /\ sessions' = IF w2.exc = "none"
                         THEN [sessions EXCEPT ![session_id].end_time = today,
                                               ![session_id].duration = duration,
                                               ![session_id].pages_covered = pagesCovered]
                         ELSE sessions
          /\ Finish("end_session", TRUE, w2)
          /\ UNCHANGED <<today, settings, tasks, new_user, pc, found, users, materials, ai, other, twin>>

\* POST /api/sessions/<id>/end  (app.py end_session)
end_session(session_id, duration, pagesCovered) ==
  IF session_id \notin DOMAIN sessions
  THEN NotFound("end_session", session_id)
  ELSE LET s == Supply(duration, 0, 0, pagesCovered)
           w0 == [Work EXCEPT !.total = @ + duration]
           w1 == update_daily_progress(w0, duration, 0, 0, pagesCovered)
           w2 == IF w1.exc = "none" THEN update_streak(w1) ELSE w1
       IN /\ WithinBounds(s)
          /\ user.total_study_time + duration <= MaxTotal
          /\ supplied' = s
          /\ sessions' = IF w2.exc = "none"
                         THEN [sessions EXCEPT ![session_id].end_time = today,
                                               ![session_id].duration = duration,
                                               ![session_id].pages_covered = pagesCovered]
                         ELSE sessions
          /\ Finish("end_session", TRUE, w2)
          /\ UNCHANGED <<today, settings, tasks, new_user, pc, found, users, materials, ai, other, twin>>

\* SessionService.end_session
SessionService_end_session(session_id, duration, pages_covered) ==
  IF session_id \notin DOMAIN sessions
  THEN NotFound("SessionService.end_session", session_id)
  ELSE LET s == Supply(duration, 0, 0, pages_covered)
           w0 == [Work EXCEPT !.total = @ + duration]
           w1 == ProgressService_update_daily(w0, duration, 0, 0, pages_covered)
       IN /\ WithinBounds(s)
          /\ user.total_study_time + duration <= MaxTotal
          /\ supplied' = s
          /\ sessions' = IF w1.exc = "none"
                         THEN [sessions EXCEPT ![session_id].end_time = today,
                                               ![session_id].duration = duration,
                                               ![session_id].pages_covered = pages_covered]
                         ELSE sessions
          /\ Finish("SessionService.end_session", TRUE, w1)
          /\ UNCHANGED <<today, settings, tasks, new_user, pc, found, users, materials, ai, other, twin>>

\* the same part of a task request, with a compensating tasks_completed=-1
\* issued when the task goes back to incomplete
CompleteTask_compensating(op, task_id, completed) ==
  LET reopened == tasks[task_id].completed /\ ~completed
      s == IF completed THEN Supply(0, 0, 1, 0) ELSE supplied
      w1 == IF completed THEN update_daily_progress(Work, 0, 0, 1, 0)
            ELSE IF reopened THEN update_daily_progress(Work, 0, 0, -1, 0)
            ELSE Work
  IN /\ WithinBounds(s)
     /\ supplied' = s
     /\ tasks' = IF w1.exc = "none"
                 THEN [tasks EXCEPT ![task_id].completed = completed,
                                    ![task_id].completed_at =
                                       IF completed THEN today ELSE Null]
                 ELSE tasks
     /\ Finish(op, completed, w1)
     /\ UNCHANGED <<today, settings, sessions, new_user, pc, found, users, materials, ai, other, twin>>

\* the part of a task request that follows the assignment of task.completed
CompleteTask(op, task_id, completed) ==
  LET s == IF completed THEN Supply(0, 0, 1, 0) ELSE supplied
      w1 == IF completed THEN update_daily_progress(Work, 0, 0, 1, 0) ELSE Work
  IN /\ WithinBounds(s)
     /\ supplied' = s
     /\ tasks' = IF w1.exc = "none"
                 THEN [tasks EXCEPT ![task_id].completed = completed,
                                    ![task_id].completed_at =
                                       IF completed THEN today ELSE Null]
                 ELSE tasks
     /\ Finish(op, completed, w1)
     /\ UNCHANGED <<today, settings, sessions, new_user, pc, found, users, materials, ai, other, twin>>

\* POST /api/tasks/<id>/toggle with the task looked up by id alone
toggle_task_any_owner(task_id) ==
  IF task_id \in DOMAIN tasks
  THEN CompleteTask("toggle_task", task_id, ~tasks[task_id].completed)
  ELSE IF task_id \in DOMAIN other.tasks
  THEN /\ other' = [other EXCEPT !.tasks[task_id].completed = ~@,
                                 !.tasks[task_id].completed_at =
                                    IF other.tasks[task_id].completed THEN Null ELSE today]
       /\ last' = Outcome("toggle_task", "ok", FALSE, Work)
       /\ UNCHANGED <<today, daily_progress, user, settings, sessions, tasks,
                      notifications, supplied, streak_updates, new_user, pc, found,
                      users, materials, ai, twin>>
  ELSE NotFound("toggle_task", task_id)

\* POST /api/tasks/<id>/toggle  (app.py toggle_task)
toggle_task(task_id) ==
  IF task_id \notin DOMAIN tasks
  THEN NotFound("toggle_task", task_id)
  ELSE CompleteTask("toggle_task", task_id, ~tasks[task_id].completed)

\* PUT /api/tasks/<id> that stamps completed_at on completion and leaves it
\* alone when the task goes back to incomplete
task_detail_keep_stamp(task_id, completed) ==
  IF task_id \notin DOMAIN tasks
  THEN NotFound("task_detail", task_id)
  ELSE LET s == IF completed THEN Supply(0, 0, 1, 0) ELSE supplied
           w1 == IF completed THEN update_daily_progress(Work, 0, 0, 1, 0) ELSE Work
       IN /\ WithinBounds(s)
          /\ supplied' = s
          /\ tasks' = IF w1.exc = "none"
                      THEN [tasks EXCEPT ![task_id].completed = completed,
                                         ![task_id].completed_at =
                                            IF completed THEN today ELSE @]
                      ELSE tasks
          /\ Finish("task_detail", completed, w1)
          /\ UNCHANGED <<today, settings, sessions, new_user, pc, found, users,
                         materials, ai, other, twin>>

\* PUT /api/tasks/<id> with 'completed' in the body  (app.py task_detail)
task_detail(task_id, completed) ==
  IF task_id \notin DOMAIN tasks
  THEN NotFound("task_detail", task_id)
  ELSE CompleteTask("task_detail", task_id, completed)

\* PUT /api/user/settings  (app.py user_settings); body is the request's JSON,
\* reduced to its daily_goal key
user_settings(body) ==
  LET row == IF settings.present THEN settings
             ELSE [present |-> TRUE, daily_goal |-> DefaultDailyGoal]
  IN /\ settings' = IF body.has THEN [row EXCEPT !.daily_goal = body.daily_goal]
                    ELSE row
     /\ last' = Outcome("user_settings", "ok", FALSE, Work)
     /\ UNCHANGED <<today, daily_progress, user, sessions, tasks, notifications,
                    supplied, streak_updates, new_user, pc, found, users, materials, ai, other, twin>>

\* midnight UTC: datetime.utcnow().date() moves to the next day
NextDay ==
  /\ today < MaxDay
  /\ today' = today + 1
  /\ supplied' = ZeroSupplied
  /\ streak_updates' = 0
  /\ last' = [Outcome("next_day", "ok", FALSE, Work) EXCEPT !.flipped = FALSE]
  /\ UNCHANGED <<daily_progress, user, settings, sessions, tasks, notifications,
                 new_user, pc, found, users, materials, ai, other, twin>>

(* ------------------------------ initial state -------------------------- *)
\* a study session as POST /api/sessions leaves it (app.py sessions)
StartedSession(material_id) ==
  [end_time |-> Null, duration |-> 0, pages_covered |-> 0, material_id |-> material_id]

\* a task as POST /api/tasks leaves it (app.py tasks)
NewTask(material_id) ==
  [completed |-> FALSE, completed_at |-> Null, material_id |-> material_id]

\* a committed daily_progress row
Row(id, date, study_time, goal_met) ==
  [id |-> id, date |-> date, study_time |-> study_time, materials_processed |-> 0,
   tasks_completed |-> 0, pages_read |-> 0, goal_met |-> goal_met]

Requests == {1, 2}
Bodies == {[has |-> FALSE]} \cup {[has |-> TRUE, daily_goal |-> g] : g \in GoalChoices}

\* The tables as the application finds them: a user with or without a
\* settings row, one started session, one open task, and daily_progress rows
\* written with explicit values (as init_db.py seed_daily_progress writes
\* them) for some of the days.  No handler can insert a daily_progress row
\* (see NewDailyProgress), so the rows the handlers work on are given here.
InitTables ==
  /\ today = 1
  /\ \E y \in {{}, {Row(1, 0, 45, FALSE)}, {Row(1, 0, 65, TRUE)}},
        t \in {{}, {Row(2, 1, 0, FALSE)}},
        n \in {{}, {Row(3, 2, 0, FALSE)}} :
        /\ t \cup n # {}
        /\ n # {} => y = {}
        /\ daily_progress = y \cup t \cup n
        /\ \E k \in InitStreaks :
             /\ k > 0 => GoalMetOn(y, 0)
             /\ user = [streak |-> k, total_study_time |-> 0]
  /\ settings \in {NoSettings, [present |-> TRUE, daily_goal |-> DefaultDailyGoal]}
  /\ sessions = [i \in SessionIds |-> StartedSession(1)]
  /\ tasks = [i \in TaskIds |-> NewTask(1)]
  /\ notifications = <<>>
  /\ supplied = ZeroSupplied
  /\ streak_updates = 0
  /\ last = [op |-> "init", status |-> "ok", recorded |-> FALSE, flipped |-> FALSE,
             created |-> 0, trans |-> 0]
  /\ new_user = (user.streak = 0 /\ RowsOn(daily_progress, 0) = {})

\* the gateway before its first invocation
NoInvocation == [op |-> "none", calls |-> 0, outcomes |-> <<>>,
                 result |-> [success |-> TRUE]]

Init ==
  /\ InitTables
  /\ pc = [r \in Requests |-> "idle"]
  /\ found = [r \in Requests |-> NoRow]
  /\ users = {1}
  /\ materials = [i \in MaterialIds |-> [status |-> "new", tags |-> None]]
  /\ ai = NoInvocation
  /\ other = [sessions |-> [i \in OtherIds |-> StartedSession(Null)],
              tasks |-> [i \in OtherIds |-> NewTask(Null)],
              notifications |-> <<Notification("reminder", "Time to study", "ri-alarm-line")>>]
  /\ twin = [dp |-> daily_progress, streak |-> user.streak,
             total |-> user.total_study_time, notifs |-> notifications]

Next ==
  \/ \E id \in RequestedSessionIds, e \in EndInputs : end_session(id, e[1], e[2])
  \/ \E id \in RequestedSessionIds, e \in EndInputs : SessionService_end_session(id, e[1], e[2])
  \/ \E id \in RequestedTaskIds : toggle_task(id)
  \/ \E id \in RequestedTaskIds, c \in BOOLEAN : task_detail(id, c)
  \/ \E b \in Bodies : user_settings(b)
  \/ NextDay

Spec == Init /\ [][Next]_vars

\* The tables after app.py register: a user with streak 0 and
\* total_study_time 0, the settings row register adds, and no daily_progress
\* row, or rows without any recorded activity
InitFresh ==
  /\ today = 1
  /\ daily_progress \in {{}, {Row(2, 1, 0, FALSE)},
                         {Row(2, 1, 0, FALSE), Row(3, 2, 0, FALSE)}}
  /\ user = [streak |-> 0, total_study_time |-> 0]
  /\ settings = [present |-> TRUE, daily_goal |-> DefaultDailyGoal]
  /\ sessions = [i \in SessionIds |-> StartedSession(1)]
  /\ tasks = [i \in TaskIds |-> NewTask(1)]
  /\ notifications = <<>>
  /\ supplied = ZeroSupplied
  /\ streak_updates = 0
  /\ last = [op |-> "init", status |-> "ok", recorded |-> FALSE, flipped |-> FALSE,
             created |-> 0, trans |-> 0]
  /\ new_user = TRUE
  /\ pc = [r \in Requests |-> "idle"]
  /\ found = [r \in Requests |-> NoRow]
  /\ users = {1}
  /\ materials = [i \in MaterialIds |-> [status |-> "new", tags |-> None]]
  /\ ai = NoInvocation
  /\ other = [sessions |-> [i \in OtherIds |-> StartedSession(Null)],
              tasks |-> [i \in OtherIds |-> NewTask(Null)],
              notifications |-> <<Notification("reminder", "Time to study", "ri-alarm-line")>>]
  /\ twin = [dp |-> daily_progress, streak |-> user.streak,
             total |-> user.total_study_time, notifs |-> notifications]

SpecFresh == InitFresh /\ [][Next]_vars

(* ------------------- session and task requests of one day -------------- *)
\* The session-end and task operations with the request's numbers of either
\* sign (neither handler validates them), within one day.
NextSigned ==
  \/ \E id \in RequestedSessionIds, e \in SignedInputs : end_session(id, e[1], e[2])
  \/ \E id \in RequestedSessionIds, e \in SignedInputs :
       SessionService_end_session(id, e[1], e[2])
  \/ \E id \in RequestedTaskIds : toggle_task(id)
  \/ \E id \in RequestedTaskIds, c \in BOOLEAN : task_detail(id, c)

SpecSigned == Init /\ [][NextSigned]_vars

(* ----------------------------- notifications --------------------------- *)
\* what an emitter call did
Emitted(op, w) ==
  [op |-> op, status |-> "ok", recorded |-> FALSE, flipped |-> FALSE,
   created |-> Len(w.notifs) - Len(notifications), trans |-> 0]

\* db.session.commit() of NotificationService.create
CommitNotification(w, outcome) ==
  /\ notifications' = w.notifs
  /\ last' = outcome
  /\ UNCHANGED <<today, daily_progress, user, settings, sessions, tasks,
                 supplied, streak_updates, new_user, pc, found, users, materials, ai, other, twin>>

\* a call of NotificationService.create
create(type, title, icon) ==
  LET w == NotificationService_create(Work, type, title, icon)
  IN /\ Len(notifications) < MaxNotifications
     /\ CommitNotification(w, Emitted("NotificationService.create", w))

\* a call of NotificationService.create_achievement
create_achievement(title) ==
  LET w == NotificationService_create_achievement(Work, title)
  IN /\ Len(notifications) < MaxNotifications
     /\ CommitNotification(w, Emitted("NotificationService.create_achievement", w))

\* a call of NotificationService.create_reminder
create_reminder(title) ==
  LET w == NotificationService_create_reminder(Work, title)
  IN /\ Len(notifications) < MaxNotifications
     /\ CommitNotification(w, Emitted("NotificationService.create_reminder", w))

\* a call of NotificationService.create_deadline_warning for a task with a
\* due date, at hour h of today
create_deadline_warning(task, h) ==
  LET now == today * 24 + h
      w == NotificationService_create_deadline_warning(Work, task, now)
      e == Emitted("NotificationService.create_deadline_warning", w)
  IN /\ Len(notifications) < MaxNotifications
     /\ CommitNotification(w, [op |-> e.op, status |-> e.status, recorded |-> e.recorded,
                               flipped |-> e.flipped, created |-> e.created,
                               trans |-> e.trans, due_date |-> task.due_date, now |-> now])

\* POST /api/notifications/<id>/read  (app.py mark_notification_read)
mark_notification_read(notif_id) ==
  IF notif_id \notin DOMAIN notifications
  THEN NotFound("mark_notification_read", notif_id)
  ELSE /\ notifications' = [notifications EXCEPT ![notif_id].read = TRUE]
       /\ last' = Outcome("mark_notification_read", "ok", FALSE, Work) @@ [id |-> notif_id]
       /\ UNCHANGED <<today, daily_progress, user, settings, sessions, tasks,
                      supplied, streak_updates, new_user, pc, found, users, materials, ai, other, twin>>

\* the rows of a notifications list, all marked read
AllRead(list) == [i \in DOMAIN list |-> [list[i] EXCEPT !.read = TRUE]]

\* POST /api/notifications/read-all with the UPDATE not filtered by user
mark_all_read_every_user ==
  /\ notifications' = AllRead(notifications)
  /\ other' = [other EXCEPT !.notifications = AllRead(@)]
  /\ last' = Outcome("mark_all_read", "ok", FALSE, Work)
  /\ UNCHANGED <<today, daily_progress, user, settings, sessions, tasks,
                 supplied, streak_updates, new_user, pc, found, users, materials, ai, twin>>

\* POST /api/notifications/read-all  (app.py mark_all_read)
mark_all_read ==
  /\ notifications' = AllRead(notifications)
  /\ last' = Outcome("mark_all_read", "ok", FALSE, Work)
  /\ UNCHANGED <<today, daily_progress, user, settings, sessions, tasks,
                 supplied, streak_updates, new_user, pc, found, users, materials, ai, other, twin>>

\* NotificationService.mark_all_read: the same UPDATE without a commit; it
\* lasts if the caller commits the session and is rolled back otherwise
NotificationService_mark_all_read(committed) ==
  /\ notifications' = IF committed THEN AllRead(notifications) ELSE notifications
  /\ last' = Outcome("NotificationService.mark_all_read",
                     IF committed THEN "ok" ELSE "rolled_back", FALSE, Work)
  /\ UNCHANGED <<today, daily_progress, user, settings, sessions, tasks,
                 supplied, streak_updates, new_user, pc, found, users, materials, ai, other, twin>>

NextNotif ==
  \/ \E k \in NotificationKinds : create(k[1], k[2], k[3])
  \/ \E t \in AchievementTitles : create_achievement(t)
  \/ \E t \in ReminderTitles : create_reminder(t)
  \/ \E d \in DueOffsets, h \in ClockHours :
       create_deadline_warning([due_date |-> today * 24 + d], h)
  \/ \E id \in 1..MaxNotifications : mark_notification_read(id)
  \/ mark_all_read
  \/ \E c \in BOOLEAN : NotificationService_mark_all_read(c)

SpecNotif == Init /\ [][NextNotif]_vars

(* ------------------------------ AI gateway ----------------------------- *)
\* One invocation at a time: a caller invokes an operation with the outcomes
\* the remote model would produce, and takes the result.
NextOutcomes == {Return(<<"[", "v", "]">>), Return(<<"{", "v", "}">>)}
            \* what a further call of the model would return

\* the invocation as the caller sees it: the result, the number of remote
\* calls made and their outcomes
Invoked(op, pending, r) ==
  /\ ai = NoInvocation
  /\ ai' = [op |-> op, calls |-> r.g.calls,
            outcomes |-> SubSeq(pending, 1, r.g.calls), result |-> r.result]
  /\ UNCHANGED <<today, daily_progress, user, settings, sessions, tasks, notifications,
                 supplied, streak_updates, last, new_user, pc, found, users, materials, other, twin>>

call_create_compendium(content, goal, pending) ==
  /\ content # ""
  /\ Invoked("create_compendium", pending, create_compendium(Gateway(pending), content, goal))

call_create_compendium_from_image(image_ok, goal, pending) ==
  /\ goal \in Goals
  /\ Invoked("create_compendium_from_image", pending,
             create_compendium_from_image(Gateway(pending), image_ok, goal))

call_ask_question(content, pending) ==
  /\ content \in Contents
  /\ Invoked("ask_question", pending, ask_question(Gateway(pending), content, "why"))

call_explain_concept(context, pending) ==
  /\ context \in Contents
  /\ Invoked("explain_concept", pending,
             explain_concept(Gateway(pending), "recursion", context))

call_generate_flashcards(content, pending) ==
  /\ content # ""
  /\ Invoked("generate_flashcards", pending,
             generate_flashcards(Gateway(pending), content, 10))

call_generate_quiz(content, pending) ==
  /\ content # ""
  /\ Invoked("generate_quiz", pending, generate_quiz(Gateway(pending), content, 5))

call_process_material(file_type, content, image_ok, goal, pending) ==
  /\ file_type \in FileTypes
  /\ Invoked("process_material", pending,
             process_material(Gateway(pending), file_type, content, image_ok, goal))

\* the caller takes the result (return jsonify(result))
take_result ==
  /\ ai # NoInvocation
  /\ ai' = NoInvocation
  /\ UNCHANGED <<today, daily_progress, user, settings, sessions, tasks, notifications,
                 supplied, streak_updates, last, new_user, pc, found, users, materials, other, twin>>

\* no invocation is in progress
Idle == ai = NoInvocation

NextAI ==
  \/ Idle /\ \E c \in Contents, g \in Goals, o \in ProseOutcomes, n \in NextOutcomes :
       call_create_compendium(c, g, <<o, n>>)
  \/ Idle /\ \E ok \in BOOLEAN, g \in Goals, o \in ProseOutcomes, n \in NextOutcomes :
       call_create_compendium_from_image(ok, g, <<o, n>>)
  \/ Idle /\ \E c \in Contents, o \in ProseOutcomes, n \in NextOutcomes :
       call_ask_question(c, <<o, n>>)
  \/ Idle /\ \E c \in Contents, o \in ProseOutcomes, n \in NextOutcomes :
       call_explain_concept(c, <<o, n>>)
  \/ Idle /\ \E c \in Contents, o \in Outcomes, n \in NextOutcomes :
       call_generate_flashcards(c, <<o, n>>)
  \/ Idle /\ \E c \in Contents, o \in Outcomes, n \in NextOutcomes :
       call_generate_quiz(c, <<o, n>>)
  \/ Idle /\ \E t \in FileTypes, c \in Contents, ok \in BOOLEAN, g \in Goals,
        o \in ProseOutcomes, n \in Outcomes :
       call_process_material(t, c, ok, g, <<o, n>>)
  \/ take_result

SpecAI == Init /\ [][NextAI]_vars

(* ---------------------------- deleting a user -------------------------- *)
\* db.session.delete(user); db.session.commit() under the relationships of
\* models.py: User declares materials, tasks, sessions, notifications and
\* settings with cascade='all, delete-orphan', and no relationship to
\* DailyProgress, whose user_id is a plain foreign key.  The ORM deletes the
\* cascaded rows and leaves daily_progress alone; what the database then does
\* depends on whether it enforces foreign keys (SQLite does not unless asked
\* to, the DATABASE_URL of config.py may name one that does): the rows stay
\* behind, or the DELETE of the user is rejected and rolled back.
\* The variable user keeps the last values of the deleted row.
delete_user(foreign_keys) ==
  /\ users # {}
  /\ IF foreign_keys /\ daily_progress # {}
     THEN /\ last' = Outcome("delete_user", "IntegrityError", FALSE, Work)
          /\ UNCHANGED <<users, materials, tasks, sessions, notifications, settings>>
     ELSE /\ users' = {}
          /\ materials' = <<>>
          /\ tasks' = <<>>
          /\ sessions' = <<>>
          /\ notifications' = <<>>
          /\ settings' = NoSettings
          /\ last' = [op |-> "delete_user", status |-> "ok", recorded |-> FALSE,
                      flipped |-> FALSE, created |-> 0, trans |-> 0]
  /\ UNCHANGED <<today, daily_progress, user, supplied, streak_updates, new_user,
                 pc, found, ai, other, twin>>

\* get_current_user() finds the session's user
LoggedIn == users # {}

NextDelete ==
  \/ LoggedIn /\ \E t \in ReminderTitles : create_reminder(t)
  \/ LoggedIn /\ \E id \in RequestedTaskIds : toggle_task(id)
  \/ LoggedIn /\ \E b \in Bodies : user_settings(b)
  \/ \E fk \in BOOLEAN : delete_user(fk)

SpecDelete == Init /\ [][NextDelete]_vars

(* -------------------- task, session and material routes ---------------- *)
\* the next primary key of a table that holds the rows of both users
NextKey(own) ==
  LET ids == DOMAIN own \cup OtherIds
  IN (CHOOSE m \in ids : \A i \in ids : i <= m) + 1

\* a request that changed only the tables named in its action
Done(op, id, status) ==
  last' = [op |-> op, status |-> status, recorded |-> FALSE, flipped |-> FALSE,
           created |-> 0, trans |-> 0, id |-> id]

\* POST /api/tasks  (app.py tasks)
create_task(title_given, material_id) ==
  /\ Cardinality(DOMAIN tasks) < MaxTasks
  /\ NextKey(tasks) \in CrudIds
  /\ IF ~title_given
     THEN /\ Done("tasks", NextKey(tasks), "bad_request")
          /\ UNCHANGED tasks
     ELSE /\ tasks' = [i \in DOMAIN tasks \cup {NextKey(tasks)} |->
                         IF i \in DOMAIN tasks THEN tasks[i] ELSE NewTask(material_id)]
          /\ Done("tasks", NextKey(tasks), "ok")
  /\ UNCHANGED <<today, daily_progress, user, settings, sessions, notifications,
                 supplied, streak_updates, new_user, pc, found, users, materials,
                 ai, other, twin>>

\* DELETE /api/tasks/<id>  (app.py task_detail)
delete_task(task_id) ==
  IF task_id \notin DOMAIN tasks
  THEN NotFound("task_detail_delete", task_id)
  ELSE /\ tasks' = [i \in DOMAIN tasks \ {task_id} |-> tasks[i]]
       /\ Done("task_detail_delete", task_id, "ok")
       /\ UNCHANGED <<today, daily_progress, user, settings, sessions, notifications,
                      supplied, streak_updates, new_user, pc, found, users, materials,
                      ai, other, twin>>

\* PUT /api/materials/<id> with 'tags' in the body  (app.py material_detail);
\* the body carries the comma-joined text of tag_list
update_material(material_id, tag_list) ==
  IF material_id \notin DOMAIN materials
  THEN NotFound("material_detail", material_id)
  ELSE /\ materials' = [materials EXCEPT ![material_id].tags = Some(Join(tag_list))]
       /\ last' = [op |-> "material_detail", status |-> "ok", recorded |-> FALSE,
                   flipped |-> FALSE, created |-> 0, trans |-> 0, id |-> material_id,
                   tag_list |-> tag_list]
       /\ UNCHANGED <<today, daily_progress, user, settings, sessions, tasks,
                      notifications, supplied, streak_updates, new_user, pc, found,
                      users, ai, other, twin>>

\* DELETE /api/materials/<id> with the tasks of the material deleted as well
delete_material_cascading(material_id, foreign_keys) ==
  IF material_id \notin DOMAIN materials
  THEN NotFound("material_detail_delete", material_id)
  ELSE /\ IF foreign_keys /\ \E i \in DOMAIN sessions : sessions[i].material_id = material_id
          THEN /\ Done("material_detail_delete", material_id, "IntegrityError")
               /\ UNCHANGED <<materials, tasks>>
          ELSE /\ materials' = [i \in DOMAIN materials \ {material_id} |-> materials[i]]
               /\ tasks' = [i \in {t \in DOMAIN tasks : tasks[t].material_id # material_id}
                              |-> tasks[i]]
               /\ Done("material_detail_delete", material_id, "ok")
       /\ UNCHANGED <<today, daily_progress, user, settings, sessions, notifications,
                      supplied, streak_updates, new_user, pc, found, users, ai, other,
                      twin>>

\* DELETE /api/materials/<id>  (app.py material_detail).  Material.tasks is a
\* relationship without cascade: the ORM sets material_id of the material's
\* tasks to NULL.  StudySession.material_id is a plain foreign key: a session
\* of the material keeps its material_id, or, where the database enforces
\* foreign keys, the DELETE is rejected and rolled back.
delete_material(material_id, foreign_keys) ==
  IF material_id \notin DOMAIN materials
  THEN NotFound("material_detail_delete", material_id)
  ELSE /\ IF foreign_keys /\ \E i \in DOMAIN sessions : sessions[i].material_id = material_id
          THEN /\ Done("material_detail_delete", material_id, "IntegrityError")
               /\ UNCHANGED <<materials, tasks>>
          ELSE /\ materials' = [i \in DOMAIN materials \ {material_id} |-> materials[i]]
               /\ tasks' = [i \in DOMAIN tasks |->
                              IF tasks[i].material_id = material_id
                              THEN [tasks[i] EXCEPT !.material_id = Null]
                              ELSE tasks[i]]
               /\ Done("material_detail_delete", material_id, "ok")
       /\ UNCHANGED <<today, daily_progress, user, settings, sessions, notifications,
                      supplied, streak_updates, new_user, pc, found, users, ai, other,
                      twin>>

TagLists == UNION {[1..n -> TagNames] : n \in 0..MaxTags}

NextMaterial ==
  \/ \E g \in BOOLEAN, m \in {Null} \cup DOMAIN materials : create_task(g, m)
  \/ \E id \in CrudIds : delete_task(id)
  \/ \E id \in CrudIds, l \in TagLists : update_material(id, l)
  \/ \E id \in CrudIds, fk \in BOOLEAN : delete_material(id, fk)

SpecMaterial == Init /\ [][NextMaterial]_vars

NextCrud ==
  \/ \E g \in BOOLEAN, m \in {Null} \cup DOMAIN materials : create_task(g, m)
  \/ \E id \in CrudIds : toggle_task(id)
  \/ \E id \in CrudIds, c \in BOOLEAN : task_detail(id, c)
  \/ \E id \in CrudIds : delete_task(id)
  \/ \E id \in CrudIds, e \in EndInputs : end_session(id, e[1], e[2])
  \/ \E id \in CrudIds \ OtherIds, e \in EndInputs :
       SessionService_end_session(id, e[1], e[2])

SpecCrud == Init /\ [][NextCrud]_vars

(* ----------------- the commits of the end-session route ---------------- *)
\* app.py end_session up to the db.session.commit() that ends
\* update_daily_progress (app.py:710): the session fields, the user's total
\* and the day's counters and goal_met are committed
end_session_commit_progress(session_id, duration, pagesCovered) ==
  /\ pc[1] = "idle"
  /\ IF session_id \notin DOMAIN sessions
     THEN NotFound("end_session", session_id)
     ELSE LET s == Supply(duration, 0, 0, pagesCovered)
              w0 == [Work EXCEPT !.total = @ + duration]
              w1 == update_daily_progress(w0, duration, 0, 0, pagesCovered)
          IN /\ WithinBounds(s)
             /\ user.total_study_time + duration <= MaxTotal
             /\ streak_updates < MaxStreakUpdates
             /\ supplied' = s
             /\ sessions' = IF w1.exc = "none"
                            THEN [sessions EXCEPT ![session_id].end_time = today,
                                                  ![session_id].duration = duration,
                                                  ![session_id].pages_covered = pagesCovered]
                            ELSE sessions
             /\ Finish("end_session", TRUE, w1)
             /\ pc' = IF w1.exc = "none"
                      THEN [pc EXCEPT ![1] = "progress_committed"]
                      ELSE pc
             /\ UNCHANGED <<today, settings, tasks, new_user, found, users, materials,
                            ai, other, twin>>

\* the rest of app.py end_session: update_streak(user) and the
\* db.session.commit() of app.py:579
end_session_commit_streak ==
  /\ pc[1] = "progress_committed"
  /\ LET w2 == update_streak(Work)
     IN /\ user' = [streak |-> w2.streak, total_study_time |-> w2.total]
        /\ notifications' = w2.notifs
        /\ streak_updates' = streak_updates + w2.trans
        /\ last' = [last EXCEPT !.trans = w2.trans,
                                !.created = Len(w2.notifs) - Len(notifications)]
  /\ pc' = [pc EXCEPT ![1] = "idle"]
  /\ UNCHANGED <<today, daily_progress, settings, sessions, tasks, supplied, new_user,
                 found, users, materials, ai, other, twin>>

NextCommit ==
  \/ \E id \in RequestedSessionIds, e \in EndInputs :
       end_session_commit_progress(id, e[1], e[2])
  \/ end_session_commit_streak
  \/ /\ pc[1] = "idle"
     /\ \E id \in RequestedSessionIds, e \in EndInputs :
          SessionService_end_session(id, e[1], e[2])
  \/ NextDay

SpecCommit == Init /\ [][NextCommit]_vars

(* ---------------- the two session-end flows side by side ---------------- *)
\* the unit of work of the services.py flow, on its own copy of the data
TwinWork == [dp |-> twin.dp, streak |-> twin.streak, total |-> twin.total,
             notifs |-> twin.notifs, exc |-> "none", trans |-> 0]

\* the same end-session call given to both flows: app.py end_session on the
\* tables, SessionService.end_session on the copy
end_session_in_both(session_id, duration, pagesCovered) ==
  IF session_id \notin DOMAIN sessions
  THEN NotFound("end_session", session_id)
  ELSE LET s == Supply(duration, 0, 0, pagesCovered)
           w0 == [Work EXCEPT !.total = @ + duration]
           w1 == update_daily_progress(w0, duration, 0, 0, pagesCovered)
           w2 == IF w1.exc = "none" THEN update_streak(w1) ELSE w1
           t0 == [TwinWork EXCEPT !.total = @ + duration]
           t1 == ProgressService_update_daily(t0, duration, 0, 0, pagesCovered)
       IN /\ WithinBounds(s)
          /\ user.total_study_time + duration <= MaxTotal
          /\ supplied' = s
          /\ sessions' = IF w2.exc = "none"
                         THEN [sessions EXCEPT ![session_id].end_time = today,
                                               ![session_id].duration = duration,
                                               ![session_id].pages_covered = pagesCovered]
                         ELSE sessions
          /\ Finish("end_session", TRUE, w2)
          /\ twin' = IF t1.exc = "none"
                     THEN [dp |-> t1.dp, streak |-> t1.streak, total |-> t1.total,
                           notifs |-> t1.notifs]
                     ELSE twin
          /\ UNCHANGED <<today, settings, tasks, new_user, pc, found, users, materials,
                         ai, other>>

NextTwin ==
  \/ \E id \in RequestedSessionIds, e \in EndInputs :
       end_session_in_both(id, e[1], e[2])
  \/ NextDay

SpecTwin == Init /\ [][NextTwin]_vars

(* ------------------------- interleaved requests ------------------------ *)
\* Two units of work run against the same tables.  A request is either a
\* ProgressService.update_daily call, split at its query, or a run of
\* init_db.py seed_daily_progress, split at its commit.

\* INSERT into a daily_progress table declared without the unique constraint
InsertRows_unchecked(dp, rows) ==
  LET base == NextId(dp) - 1
      numbered == {[r EXCEPT !.id = base + r.id] : r \in rows}
  IN [ok |-> TRUE, dp |-> dp \cup numbered]

\* INSERT of rows into daily_progress at commit: the table's
\* UniqueConstraint('user_id', 'date') rejects the whole transaction
\* (IntegrityError) when a (user, date) would occur twice.
InsertRows(dp, rows) ==
  LET base == NextId(dp) - 1
      numbered == {[r EXCEPT !.id = base + r.id] : r \in rows}
  IN IF \E r \in rows : RowsOn(dp, r.date) # {}
     THEN [ok |-> FALSE, dp |-> dp]
     ELSE [ok |-> TRUE, dp |-> dp \cup numbered]

\* progress = DailyProgress.query.filter_by(user_id=user_id, date=today).first()
Query(r) ==
  /\ pc[r] = "idle"
  /\ found' = [found EXCEPT ![r] =
                 IF TodayRows # {} THEN [has |-> TRUE, row |-> First(TodayRows)]
                 ELSE NoRow]
  /\ pc' = [pc EXCEPT ![r] = "queried"]
  /\ UNCHANGED <<today, daily_progress, user, settings, sessions, tasks,
                 notifications, supplied, streak_updates, last, new_user, users, materials, ai, other, twin>>

\* the rest of ProgressService.update_daily, on the row the query returned:
\* the UPDATE at commit writes the values computed from that row
Write(r) ==
  /\ pc[r] = "queried"
  /\ LET others == {x \in daily_progress : found[r].has => x.id # found[r].row.id}
         view == IF found[r].has THEN others \cup {found[r].row}
                 ELSE daily_progress \ TodayRows
         w1 == ProgressService_update_daily([Work EXCEPT !.dp = view],
                                            ConcDelta[1], 0, 0, ConcDelta[2])
     IN IF w1.exc = "none"
        THEN /\ daily_progress' = w1.dp
             /\ user' = [streak |-> w1.streak, total_study_time |-> w1.total]
             /\ notifications' = w1.notifs
             /\ pc' = [pc EXCEPT ![r] = "done"]
        ELSE /\ UNCHANGED <<daily_progress, user, notifications>>
             /\ pc' = [pc EXCEPT ![r] = "failed"]
  /\ UNCHANGED <<today, settings, sessions, tasks, supplied, streak_updates,
                 last, new_user, found, users, materials, ai, other, twin>>

\* init_db.py seed_daily_progress up to its commit: one DailyProgress per day
\* of the past SeedDays days, every column given explicitly
seed_begin(r) ==
  /\ pc[r] = "idle"
  /\ \E s \in SeedStudy : found' = [found EXCEPT ![r] = [has |-> FALSE, seed |-> s]]
  /\ pc' = [pc EXCEPT ![r] = "seeding"]
  /\ UNCHANGED <<today, daily_progress, user, settings, sessions, tasks,
                 notifications, supplied, streak_updates, last, new_user, users, materials, ai, other, twin>>

\* init_db.py seed_daily_progress: db.session.commit()
seed_commit(r) ==
  /\ pc[r] = "seeding"
  /\ LET rows == {Row(d + 1, d, found[r].seed, found[r].seed >= SeedGoal) :
                    d \in {x \in Days : x <= today /\ today - x < SeedDays}}
         res == InsertRows(daily_progress, rows)
     IN /\ daily_progress' = res.dp
        /\ pc' = [pc EXCEPT ![r] = IF res.ok THEN "done" ELSE "failed"]
  /\ UNCHANGED <<today, user, settings, sessions, tasks, notifications,
                 supplied, streak_updates, last, new_user, found, users, materials, ai, other, twin>>

NextConc ==
  \E r \in Requests : Query(r) \/ Write(r) \/ seed_begin(r) \/ seed_commit(r)

SpecConc == Init /\ [][NextConc]_vars

(* ------------------- interleaved end-session requests ------------------ *)
\* app.py end_session up to its first write: get_current_user has loaded the
\* User row (total_study_time as it is now) and the request body is read
end_session_load(r, duration, pagesCovered) ==
  /\ pc[r] = "idle"
  /\ found' = [found EXCEPT ![r] = [has |-> FALSE, total |-> user.total_study_time,
                                     duration |-> duration, pages |-> pagesCovered]]
  /\ pc' = [pc EXCEPT ![r] = "loaded"]
  /\ UNCHANGED <<today, daily_progress, user, settings, sessions, tasks,
                 notifications, supplied, streak_updates, last, new_user, users,
                 materials, ai, other, twin>>

\* the rest of app.py end_session.  The autoflush before the query of
\* update_daily_progress sends UPDATE study_sessions and UPDATE users SET
\* total_study_time = <loaded value + duration>; it takes the write lock of
\* the session row (of the database file under SQLite), so today's
\* DailyProgress row is read after the other request has committed, while
\* the total is computed from the value loaded before.
end_session_store(r) ==
  /\ pc[r] = "loaded"
  /\ LET s == Supply(found[r].duration, 0, 0, found[r].pages)
         w0 == [Work EXCEPT !.total = IF found[r].duration = 0
                                      THEN @     \* attribute unchanged: no UPDATE
                                      ELSE found[r].total + found[r].duration]
         w1 == update_daily_progress(w0, found[r].duration, 0, 0, found[r].pages)
         w2 == IF w1.exc = "none" THEN update_streak(w1) ELSE w1
     IN /\ WithinBounds(s)
        /\ supplied' = s
        /\ sessions' = IF w2.exc = "none"
                       THEN [sessions EXCEPT ![1].end_time = today,
                                             ![1].duration = found[r].duration,
                                             ![1].pages_covered = found[r].pages]
                       ELSE sessions
        /\ Finish("end_session", TRUE, w2)
        /\ pc' = [pc EXCEPT ![r] = IF w2.exc = "none" THEN "done" ELSE "failed"]
  /\ UNCHANGED <<today, settings, tasks, new_user, found, users, materials, ai,
                 other, twin>>

NextRace ==
  \/ \E r \in Requests, e \in EndInputs : end_session_load(r, e[1], e[2])
  \/ \E r \in Requests : end_session_store(r)

SpecRace == Init /\ [][NextRace]_vars

(* ------------------------------ properties ----------------------------- *)
EndOps == {"end_session", "SessionService.end_session"}

\* the counters of a row, as a record comparable with supplied
Counters(r) == [study_time |-> r.study_time, materials_processed |-> r.materials_processed,
                tasks_completed |-> r.tasks_completed, pages_read |-> r.pages_read]

\* C1: user.streak changes at most once per day, and only in the call in
\* which today's goal_met flips from false to true; a call made while goal_met
\* is already true leaves it unchanged.
C1_StreakEdgeTriggered ==
  [][(today' = today /\ user'.streak # user.streak)
     => (~GoalMetOn(daily_progress, today) /\ GoalMetOn(daily_progress', today))]_vars

\* C2: after any sequence of recordActivity calls on a day, that day's row
\* exists and each of its four counters is the sum of the deltas supplied
\* (the rows of the days the clock visits start at 0).
C2_CountersAreSumOfDeltas ==
  supplied # ZeroSupplied => \E r \in TodayRows : Counters(r) = supplied

\* C3: goal_met of a (user, date) is sticky: no step sets it back to false.
C3_GoalMetSticky ==
  [][\A d \in Days : GoalMetOn(daily_progress, d) => GoalMetOn(daily_progress', d)]_vars

\* C3 witness: goal_met is still true after a settings update raised
\* daily_goal above the accumulated study_time and a further request ran.
C3_Witness ==
  /\ last.recorded /\ last.status = "ok"
  /\ settings.present
  /\ \E r \in TodayRows : r.goal_met /\ r.study_time < settings.daily_goal

\* C4: in the step in which today's goal_met flips to true, user.streak
\* becomes its previous value + 1 if yesterday's row has goal_met, else 1.
C4_StreakRuleAtFlip ==
  [][(today' = today /\ ~GoalMetOn(daily_progress, today)
        /\ GoalMetOn(daily_progress', today))
     => user'.streak = IF GoalMetOn(daily_progress, today - 1)
                       THEN user.streak + 1 ELSE 1]_vars

RECURSIVE RunEndingAt(_, _)
\* number of consecutive goal-met days ending at day d
RunEndingAt(dp, d) ==
  IF d < 0 \/ ~GoalMetOn(dp, d) THEN 0 ELSE 1 + RunEndingAt(dp, d - 1)

LastGoalMetDay(dp) ==
  CHOOSE m \in Days : GoalMetOn(dp, m) /\ \A d \in Days : GoalMetOn(dp, d) => d <= m

\* C5: for a user who started with streak 0 and no recorded activity, once
\* there is a goal-met day, user.streak is the number of consecutive goal-met
\* days ending at the most recent one.
C5_StreakIsRunLength ==
  (new_user /\ \E d \in Days : GoalMetOn(daily_progress, d))
    => user.streak = RunEndingAt(daily_progress, LastGoalMetDay(daily_progress))

ClaimedMilestones == {7, 14, 30, 60, 100, 365}

\* C6: a request creates an achievement notification iff it performed a
\* streak transition whose new value is a milestone, and then exactly one.
C6_MilestoneNotification ==
  last.created = IF last.trans > 0 /\ user.streak \in ClaimedMilestones THEN 1 ELSE 0

\* C7: with settings present, after a recordActivity call today's row holds
\* the accumulated study_time, has goal_met whenever that study_time >= daily_goal,
\* and the call flipped goal_met only if it is.
C7_GoalSetWhenReached ==
  (last.recorded /\ settings.present)
    => \E r \in TodayRows :
         /\ r.study_time = supplied.study_time
         /\ r.study_time >= settings.daily_goal => r.goal_met
         /\ last.flipped => r.study_time >= settings.daily_goal

\* C8: without a settings row a recordActivity call sets no goal_met, performs
\* no streak transition and creates no notification, and still accumulates
\* the counters.
C8_NoSettingsNoGoal ==
  (last.recorded /\ ~settings.present)
    => /\ ~last.flipped /\ last.trans = 0 /\ last.created = 0
       /\ \E r \in TodayRows : Counters(r) = supplied

\* C10: ending an existing session with (d, p) stores end_time, d and p on the
\* session, adds d to user.total_study_time, and adds d and p to today's
\* study_time and pages_read -- also when the session was ended before.
C10_EndSessionAddsTotals ==
  [][(last'.op \in EndOps /\ last'.status # "not_found")
     => LET d == supplied'.study_time - supplied.study_time
            p == supplied'.pages_read - supplied.pages_read
        IN /\ \A id \in DOMAIN sessions :
                sessions'[id] # sessions[id] =>
                  sessions'[id] = [sessions[id] EXCEPT !.end_time = today,
                                     !.duration = d, !.pages_covered = p]
           /\ \E id \in DOMAIN sessions :
                sessions'[id] = [sessions[id] EXCEPT !.end_time = today,
                                   !.duration = d, !.pages_covered = p]
           /\ user'.total_study_time = user.total_study_time + d
           /\ \E r \in RowsOn(daily_progress', today) :
                \E r0 \in TodayRows :
                   /\ r.study_time = r0.study_time + d
                   /\ r.pages_read = r0.pages_read + p]_vars

\* C9: under any interleaving of requests there is never more than one
\* daily_progress row for a (user, date).
C9_OneRowPerUserDate ==
  \A r1, r2 \in daily_progress : r1.date = r2.date => r1 = r2

\* C9 witness: two interleaved calls both found no row for today and both
\* went on to create it.
C9_Witness ==
  \A r \in Requests : found[r] = NoRow /\ pc[r] = "failed"

\* tasks_completed of day d (0 while the day has no row)
TasksCompletedOn(dp, d) ==
  IF RowsOn(dp, d) = {} THEN 0 ELSE First(RowsOn(dp, d)).tasks_completed

\* C11: within a day, a step raises today's tasks_completed by the number of
\* tasks whose completed flag it changes from false to true: by 1 when a task
\* becomes completed, by 0 when every flag is left as it was (an update with
\* completed=true on a completed task included).
C11_TasksCompletedOnTransition ==
  [][today' = today
     => TasksCompletedOn(daily_progress', today) - TasksCompletedOn(daily_progress, today)
          = Cardinality({t \in DOMAIN tasks :
                           ~tasks[t].completed /\ tasks'[t].completed})]_vars

\* C12: a step that takes a task from completed to incomplete clears its
\* completed_at and changes no daily_progress row, and a step that takes it
\* (back) to completed adds 1 to today's tasks_completed: completing,
\* un-completing and re-completing a task counts 2.
C12_UncompleteKeepsCount ==
  [][today' = today
     => \A t \in DOMAIN tasks :
          /\ (tasks[t].completed /\ ~tasks'[t].completed)
               => (tasks'[t].completed_at = Null /\ daily_progress' = daily_progress)
          /\ (~tasks[t].completed /\ tasks'[t].completed)
               => TasksCompletedOn(daily_progress', today)
                    = TasksCompletedOn(daily_progress, today) + 1]_vars

\* C12 witness: the single task was completed, re-opened and completed again
\* by the toggle route on one day, and the day's tasks_completed is 2.
C12_Witness ==
  /\ last.op = "toggle_task" /\ last.status = "ok"
  /\ \A t \in DOMAIN tasks : tasks[t].completed
  /\ supplied.tasks_completed = 2
  /\ TasksCompletedOn(daily_progress, today) = 2

\* C13: user.streak is never negative, and is at least 1 whenever today's
\* row has goal_met.
C13_StreakPositiveWhenGoalMet ==
  /\ user.streak >= 0
  /\ GoalMetOn(daily_progress, today) => user.streak >= 1

\* C14: no step lowers a counter of any day's row, nor user.total_study_time.
C14_CountersNeverDecrease ==
  [][/\ user'.total_study_time >= user.total_study_time
     /\ \A r0 \in daily_progress : \A r \in RowsOn(daily_progress', r0.date) :
          /\ r.study_time >= r0.study_time
          /\ r.materials_processed >= r0.materials_processed
          /\ r.tasks_completed >= r0.tasks_completed
          /\ r.pages_read >= r0.pages_read]_vars

EmitterOps == {"NotificationService.create", "NotificationService.create_achievement",
               "NotificationService.create_reminder",
               "NotificationService.create_deadline_warning"}

\* C15: every emitter call appends exactly one notification, unread, and
\* leaves the notifications that existed as they were; nothing is deduplicated.
C15_EmitterAddsOneUnread ==
  [][last'.op \in EmitterOps
     => /\ Len(notifications') = Len(notifications) + 1
        /\ SubSeq(notifications', 1, Len(notifications)) = notifications
        /\ ~notifications'[Len(notifications')].read]_vars

\* C15 witness: two identical calls left two notifications, the first of
\* which had been read in between.
C15_Witness ==
  /\ last.op \in EmitterOps
  /\ Len(notifications) >= 2
  /\ LET n == Len(notifications)
     IN /\ notifications[n - 1].read /\ ~notifications[n].read
        /\ [notifications[n - 1] EXCEPT !.read = FALSE] = notifications[n]

\* C16: a deadline warning created when the due date is N calendar days after
\* the current date is titled "Deadline in 1 day" for N = 1 and
\* "Deadline in N days" for N >= 2.
C16_DeadlineTitle ==
  [][last'.op = "NotificationService.create_deadline_warning"
     => LET N == DateOf(last'.due_date) - DateOf(last'.now)
            title == notifications'[Len(notifications')].title
        IN /\ N = 1 => title = "Deadline in 1 day"
           /\ N >= 2 => title = "Deadline in " \o ToString(N) \o " days"]_vars

\* C16 witness: a warning was created late in the day for a task due early on
\* the next calendar day (less than 24 hours ahead), and one for a task due
\* two days ahead.
C16_Witness ==
  /\ last.op = "NotificationService.create_deadline_warning"
  /\ last.due_date - last.now < 24
  /\ notifications[Len(notifications)].title = "Deadline in 1 day"
  /\ \E i \in DOMAIN notifications : notifications[i].title = "Deadline in 2 days"

\* a response text from which op extracts no span, or a span that is not JSON
ParseFails(op, text) ==
  LET match == IF op = "generate_flashcards" THEN Search(text, "[", "]")
               ELSE Search(text, "{", "}")
  IN ~match.found \/ ~json_loads(match.group).ok

\* what op returns when its remote call has outcome o
ResultFor(op, o) ==
  IF op = "generate_flashcards"
  THEN generate_flashcards(Gateway(<<o>>), "notes", 10).result
  ELSE generate_quiz(Gateway(<<o>>), "notes", 5).result

\* the flashcard step of the last process_material invocation ran and failed
FlashcardStepFailed ==
  /\ ai.op = "process_material" /\ ai.calls = 2
  /\ ~ai.outcomes[1].raises
  /\ (ai.outcomes[2].raises \/ ParseFails("generate_flashcards", ai.outcomes[2].text))

\* C17: when process_material obtained the compendium and the flashcard step
\* failed (provider error or unparseable response), the result has success
\* true, the compendium text, flashcards None and error None.
C17_PartialFailureKeepsCompendium ==
  FlashcardStepFailed
    => /\ ai.result.success
       /\ ai.result.compendium = Some(ai.outcomes[1].text)
       /\ ai.result.flashcards = None
       /\ ai.result.error = None

\* C17 witness: the flashcard step failed on a response that holds a bracket
\* span which is not JSON.
C17_Witness ==
  /\ FlashcardStepFailed
  /\ ~ai.outcomes[2].raises
  /\ Search(ai.outcomes[2].text, "[", "]").found
  /\ ai.result.success

\* C18: a flashcard or quiz invocation whose response holds no span, or a
\* span that is not JSON, returns success false with a result that the
\* operation returns for no failure of the remote call.
C18_ParseFailureDistinct ==
  (/\ ai.op \in {"generate_flashcards", "generate_quiz"}
   /\ ai.calls = 1 /\ ~ai.outcomes[1].raises
   /\ ParseFails(ai.op, ai.outcomes[1].text))
    => /\ ~ai.result.success
       /\ \A m \in ProviderErrors : ai.result # ResultFor(ai.op, Raise(m))

SingleCallOps == {"create_compendium", "create_compendium_from_image", "ask_question",
                  "explain_concept", "generate_flashcards", "generate_quiz"}

\* C19: a gateway operation makes at most one remote call per invocation,
\* and when that call raises, it returns success false with the provider's
\* message.
C19_AtMostOneCallNoRetry ==
  ai.op \in SingleCallOps
    => /\ ai.calls <= 1
       /\ (ai.calls >= 1 /\ ai.outcomes[1].raises)
            => ai.result = [success |-> FALSE, error |-> ai.outcomes[1].msg]

\* C19 witness: the single remote call of an invocation raised.
C19_Witness ==
  /\ ai.op \in SingleCallOps
  /\ ai.calls = 1 /\ ai.outcomes[1].raises
  /\ ~ai.result.success

\* C20: once the user is deleted, no material, task, study session,
\* notification, settings row or daily_progress row of that user is left.
C20_DeleteUserCascades ==
  users = {}
    => /\ DOMAIN materials = {} /\ DOMAIN tasks = {} /\ DOMAIN sessions = {}
       /\ Len(notifications) = 0
       /\ ~settings.present
       /\ daily_progress = {}

(* C21: deleting a material deletes no task and no study session: every task
   and every session that existed before the deletion still exists after it,
   with all its fields other than the link to the material unchanged. *)
C21_DeleteMaterialKeepsTasksSessions ==
  [][last'.op = "material_detail_delete" =>
       /\ DOMAIN tasks' = DOMAIN tasks
       /\ DOMAIN sessions' = DOMAIN sessions
       /\ \A t \in DOMAIN tasks :
            [tasks'[t] EXCEPT !.material_id = tasks[t].material_id] = tasks[t]
       /\ \A i \in DOMAIN sessions :
            [sessions'[i] EXCEPT !.material_id = sessions[i].material_id] = sessions[i]]_vars

\* a material was deleted while a task and a session were linked to it
C21_Witness ==
  /\ last.op = "material_detail_delete"
  /\ last.status = "ok"
  /\ last.id \notin DOMAIN materials
  /\ \E t \in DOMAIN tasks : tasks[t].material_id = Null
  /\ \E i \in DOMAIN sessions : sessions[i].material_id = last.id

(* C22: once a study session has been ended, no later operation changes its
   end_time, duration or pages_covered; a second end-session call on it does
   not alter the stored values. *)
C22_EndedSessionFrozen ==
  [][\A id \in DOMAIN sessions \cap DOMAIN sessions' :
       sessions[id].end_time # Null =>
         /\ sessions'[id].end_time = sessions[id].end_time
         /\ sessions'[id].duration = sessions[id].duration
         /\ sessions'[id].pages_covered = sessions[id].pages_covered]_vars

\* the list of tags last sent for a material still stored
SentTags == last.op = "material_detail" /\ last.status = "ok" /\ last.id \in DOMAIN materials

\* a material without tags (NULL or empty text) is returned with the empty list
NoTagsGiveEmptyList ==
  \A m \in DOMAIN materials :
    (materials[m].tags = None \/ materials[m].tags.value = <<>>) =>
      to_dict_tags(materials[m]) = <<>>

(* C23 as stated: a list of tag strings, none containing a comma, stored as
   comma-joined text is returned by to_dict as the same list in the same
   order; a material without tags is returned with the empty list. *)
C23_TagsRoundTrip ==
  /\ SentTags => to_dict_tags(materials[last.id]) = last.tag_list
  /\ NoTagsGiveEmptyList

(* C23 amended: the round trip holds for every list of comma-free tag strings
   other than the one-element list holding the empty string, whose joined
   text is the empty text of a material without tags; a material without tags
   is returned with the empty list. *)
C23_TagsRoundTripAmended ==
  /\ (SentTags /\ last.tag_list # << <<>> >>) =>
       to_dict_tags(materials[last.id]) = last.tag_list
  /\ NoTagsGiveEmptyList

\* two tags were stored as one text with a comma and returned as the two tags
C23_Witness ==
  /\ SentTags
  /\ Len(last.tag_list) = 2
  /\ last.tag_list[1] # <<>> /\ last.tag_list[2] # <<>>
  /\ "," \in {materials[last.id].tags.value[i] :
                i \in 1..Len(materials[last.id].tags.value)}
  /\ to_dict_tags(materials[last.id]) = last.tag_list

(* C24: the counter increments of a recordActivity call and its goal_met
   write are committed together, and in the end-session flow no committed
   state exists in which today's goal_met has been set by the call while the
   corresponding streak update is missing. *)
C24_GoalAndStreakCommittedTogether ==
  [][/\ daily_progress' # daily_progress =>
          \A r \in RowsOn(daily_progress', today) : GoalReached(r) => r.goal_met
     /\ (last'.op \in EndOps /\ last'.status = "ok" /\ last'.flipped) =>
          last'.trans >= 1]_vars

\* the notifications of list before that a step left unread -> read or as they were
OnlyMarkedRead(before, after) ==
  /\ Len(after) >= Len(before)
  /\ \A i \in DOMAIN before :
       /\ [after[i] EXCEPT !.read = before[i].read] = before[i]
       /\ before[i].read => after[i].read

(* C25: after a notification is created, its user, type, title, text and
   icon never change and its read flag only changes from false to true;
   mark-one-read sets the flag of the addressed notification of the calling
   user and of no other, mark-all-read sets it for exactly the calling user's
   unread notifications, and neither touches another user's notifications. *)
C25_NotificationsOnlyMarkedRead ==
  [][/\ OnlyMarkedRead(notifications, notifications')
     /\ other'.notifications = other.notifications
     /\ (last'.op = "mark_notification_read" /\ last'.status = "ok") =>
          notifications' = [notifications EXCEPT ![last'.id].read = TRUE]
     /\ (last'.op \in {"mark_all_read", "NotificationService.mark_all_read"}
         /\ last'.status = "ok") =>
          notifications' = AllRead(notifications)
     /\ last'.status \in {"not_found", "rolled_back"} =>
          notifications' = notifications]_vars

\* mark-all-read marked the calling user's notifications, one of them unread
\* before, while another user's notification stayed unread
C25_Witness ==
  /\ last.op = "mark_all_read"
  /\ Len(notifications) >= 2
  /\ \A i \in DOMAIN notifications : notifications[i].read
  /\ \E i \in DOMAIN other.notifications : ~other.notifications[i].read

\* the step reported not-found and changed nothing but the record of the request
Rejected ==
  /\ last'.status = "not_found"
  /\ UNCHANGED <<today, daily_progress, user, settings, sessions, tasks, notifications,
                 supplied, streak_updates, new_user, users, materials, other>>

(* C26: an end-session, task toggle, task update or task delete request whose
   id names no existing entity, or an entity owned by a different user,
   reports not-found and leaves all state unchanged: no session, task, user
   total, DailyProgress row, streak or notification is created or modified. *)
C26_NotFoundChangesNothing ==
  [][\A id \in CrudIds :
       /\ id \notin DOMAIN tasks =>
            ((\/ last'.op = "toggle_task" /\ toggle_task(id)
              \/ last'.op = "task_detail" /\ \E c \in BOOLEAN : task_detail(id, c)
              \/ last'.op = "task_detail_delete" /\ delete_task(id)) => Rejected)
       /\ id \notin DOMAIN sessions =>
            ((/\ last'.op = "end_session"
              /\ \E e \in EndInputs : end_session(id, e[1], e[2])) => Rejected)
       /\ id \notin DOMAIN sessions \cup DOMAIN other.sessions =>
            ((/\ last'.op = "SessionService.end_session"
              /\ \E e \in EndInputs : SessionService_end_session(id, e[1], e[2]))
               => Rejected)]_vars

\* a toggle request named the task of another user and was answered not-found
C26_Witness ==
  /\ last.op = "toggle_task"
  /\ last.status = "not_found"
  /\ last.id \in DOMAIN other.tasks
  /\ ~other.tasks[last.id].completed

(* C30: for every task created and changed only through the task routes
   (create, update, toggle), completed_at is set exactly when completed is
   true. *)
C30_CompletedAtIffCompleted ==
  \A t \in DOMAIN tasks : (tasks[t].completed_at # Null) <=> tasks[t].completed

\* a task created through the route is completed and stamped while another
\* task, completed before, is incomplete again without a stamp
C30_Witness ==
  /\ last.op \in {"task_detail", "toggle_task"}
  /\ last.status = "ok"
  /\ \E t \in DOMAIN tasks \ TaskIds :
       tasks[t].completed /\ tasks[t].completed_at = today
  /\ \E t \in TaskIds \cap DOMAIN tasks :
       ~tasks[t].completed /\ tasks[t].completed_at = Null
  /\ supplied.tasks_completed = 2

\* the number of achievement notifications in a list
Achievements(list) ==
  Cardinality({i \in DOMAIN list : list[i].type = "achievement"})

(* C27: the two implementations of the session-end flow agree: from the same
   initial state and for the same sequence of end-session calls, the route
   of app.py and SessionService.end_session of services.py produce the same
   user.streak, user.total_study_time, DailyProgress rows and number of
   achievement notifications. *)
C27_SessionEndFlowsAgree ==
  /\ twin.streak = user.streak
  /\ twin.total = user.total_study_time
  /\ twin.dp = daily_progress
  /\ Achievements(twin.notifs) = Achievements(notifications)

(* C28: when two end-session requests of the same user run concurrently on a
   day whose DailyProgress row already exists, both complete, and the final
   study_time and pages_read of that row and user.total_study_time include
   the deltas of both requests. *)
C28_ConcurrentEndsLoseNothing ==
  (TodayRows # {} /\ \A r \in Requests : pc[r] \in {"done", "failed"}) =>
    /\ \A r \in Requests : pc[r] = "done"
    /\ user.total_study_time = supplied.study_time
    /\ \A row \in TodayRows :
         /\ row.study_time = supplied.study_time
         /\ row.pages_read = supplied.pages_read

RECURSIVE SumStudyTime(_)
\* the sum of study_time over a set of DailyProgress rows
SumStudyTime(rows) ==
  IF rows = {} THEN 0
  ELSE LET r == CHOOSE x \in rows : TRUE
       IN r.study_time + SumStudyTime(rows \ {r})

(* C29: for a user created with total_study_time 0 and no DailyProgress
   rows, after any sequential series of end-session and task operations,
   user.total_study_time equals the sum of study_time over all of the user's
   DailyProgress rows. *)
C29_TotalIsSumOfDays ==
  user.total_study_time = SumStudyTime(daily_progress)

\* sessions ended on two days: both rows carry study time and the total is
\* their sum
C29_Witness ==
  /\ last.op \in EndOps
  /\ last.status = "ok"
  /\ Cardinality({r \in daily_progress : r.study_time > 0}) = 2
  /\ user.total_study_time > 0
  /\ user.total_study_time = SumStudyTime(daily_progress)

====
